---- MODULE Spec2Model ----
(***************************************************************************)
(* A state-machine model of src/gee_subsets.py: the command-line script    *)
(* that resolves a list of locations, builds one geometry per location,    *)
(* asks Google Earth Engine for the region's time series, reshapes the     *)
(* answer into a table and prints or saves it.                             *)
(*                                                                         *)
(* Conventions of the model                                                *)
(*  - A Python value whose type the code depends on is a tagged record:    *)
(*    PyInt(0) is the integer 0 that argparse leaves for an omitted        *)
(*    option, PyStr(s) a str, PyList(l) a list.                            *)
(*  - A str whose characters the code uses (it is parsed, concatenated     *)
(*    or tested for emptiness) is a sequence of one-character strings.     *)
(*    Product, band and column names are opaque and stay TLA+ strings.     *)
(*  - Latitudes, longitudes and the radius are in micro-degrees, so that   *)
(*    the factor 0.008983 degrees per km is the integer 8983.              *)
(*  - A timestamp is held in milliseconds since the epoch.                 *)
(*  - The script names "python" as its interpreter; the major version the  *)
(*    host resolves that to is part of the environment (py).               *)
(***************************************************************************)
EXTENDS Integers, Sequences, FiniteSets, TLC

VARIABLES
  py,          \* major version of the interpreter behind /usr/bin/env python
  table,       \* rows of the location table that read_csv can obtain
  args,        \* the argparse Namespace
  pc,          \* position of the script
  outcome,     \* "running", "ok", or the name of the uncaught exception
  raisedAt,    \* source line that raised the exception, 0 when none
  locations,   \* the variable locations (line 104/106), or Unbound
  radius,      \* the variable radius (line 112), or Unbound
  i,           \* number of rows itertuples has produced so far
  loc,         \* the loop variable loc, or Unbound
  geometry,    \* the variable geometry, or Unbound
  region,      \* the variable region, or Unbound
  df,          \* the variable df, or Unbound
  stdout,      \* what has been printed, in order
  files,       \* the to_csv writes, in order
  readCsvCalls,\* arguments pd.read_csv was called with, in order
  events       \* remote-session events: init, request k, emit k, fail k

vars == <<py, table, args, pc, outcome, raisedAt, locations, radius, i, loc,
          geometry, region, df, stdout, files, readCsvCalls, events>>

\* ------------------------------------------------------------- bounds

MaxRows == 3

MaxRegionRows == 2

\* ------------------------------------------------------ Python values

PyInt(n) == [t |-> "int", v |-> n]

PyStr(s) == [t |-> "str", v |-> s]

PyList(l) == [t |-> "list", v |-> l]

\* a variable the script has not assigned yet, and one it has
Unbound == [t |-> "unbound"]

Bound(x) == [t |-> "bound", v |-> x]

\* bool(x) of an int, a str or a list
Truthy(x) ==
  IF x.t = "int" THEN x.v # 0 ELSE Len(x.v) > 0

\* getattr on the Namespace: only the destinations argparse created exist
HasAttr(ns, name) == name \in DOMAIN ns

\* t[k] of a Python tuple (0-based)
PyIdx(t, k) == t[k + 1]

\* x > 0 for x a str or an int: Python 2 orders a str above every int,
\* Python 3 raises TypeError
GreaterThanZero(x) ==
  IF x.t = "int" THEN IF x.v > 0 THEN "True" ELSE "False"
  ELSE IF py = 2 THEN "True" ELSE "TypeError"

DigitValue ==
  [c \in {"0", "1", "2", "3", "4", "5", "6", "7", "8", "9"} |->
     CASE c = "0" -> 0 [] c = "1" -> 1 [] c = "2" -> 2 [] c = "3" -> 3
       [] c = "4" -> 4 [] c = "5" -> 5 [] c = "6" -> 6 [] c = "7" -> 7
       [] c = "8" -> 8 [] c = "9" -> 9]

IsNumeral(s) ==
  /\ Len(s) > 0
  /\ \A k \in 1..Len(s) : s[k] \in DOMAIN DigitValue

RECURSIVE Numeral(_)
Numeral(s) ==
  IF Len(s) = 0 THEN 0
  ELSE 10 * Numeral(SubSeq(s, 1, Len(s) - 1)) + DigitValue[s[Len(s)]]

\* ------------------------------------------------- command-line values

DefaultRadius == <<"0">>

RadiusArgs == {DefaultRadius, <<"1">>, <<"1", "2">>, <<>>}

DefaultScale == <<"3", "0">>

DefaultStart == "2013-01-01"

DefaultEnd == "2014-12-31"

LocalCsv == <<"l", ".", "c", "s", "v">>

MissingCsv == <<"m", ".", "c", "s", "v">>

UrlCsv == <<"h", "t", "t", "p", ":", "/", "/", "h", "/", "l">>

FileArgs == {PyInt(0), PyStr(LocalCsv), PyStr(MissingCsv), PyStr(UrlCsv)}

LocationArgs == {PyInt(0), PyList(<<"40.0", "-105.0">>)}

DirectoryArgs == {PyInt(0), PyStr(<<"o", "u", "t">>), PyStr(<<"o", "u", "t", "/">>)}

BandArgs == {<<"Y">>, <<"Y", "Z">>, <<"product">>}

ProductArgs == {"X"}

\* the Namespace parse_args returns: one attribute per add_argument
getArgs ==
  {[product |-> p, band |-> b, start |-> PyStr(DefaultStart),
    end |-> PyStr(DefaultEnd), radius |-> PyStr(r), scale |-> PyStr(DefaultScale),
    location |-> l, file |-> f, directory |-> d] :
     p \in ProductArgs, b \in BandArgs, r \in RadiusArgs,
     l \in LocationArgs, f \in FileArgs, d \in DirectoryArgs}

\* ---------------------------------------------------------- environment

Letters == <<"a", "b", "c", "d", "e", "f">>

\* row k of a location table: name, latitude, longitude
TableRow(k) ==
  <<<<Letters[((k - 1) % Len(Letters)) + 1]>>,
    (50 - 10 * k) * 1000000, (0 - 100 - 5 * k) * 1000000>>

Tables == {[k \in 1..n |-> TableRow(k)] : n \in 0..MaxRows}

\* os.path.isfile
isfile(path) == path = LocalCsv

\* pd.read_csv: a local file or a URL that can be fetched yields the table
Readable(path) == path \in {LocalCsv, UrlCsv}

\* ---------------------------------------------------------------- Init

Init ==
  /\ py \in {2, 3}
  /\ table \in Tables
  /\ args \in getArgs
  /\ pc = "resolve"
  /\ outcome = "running"
  /\ raisedAt = 0
  /\ locations = Unbound
  /\ radius = Unbound
  /\ i = 0
  /\ loc = Unbound
  /\ geometry = Unbound
  /\ region = Unbound
  /\ df = Unbound
  /\ stdout = <<>>
  /\ files = <<>>
  /\ readCsvCalls = <<>>
  /\ events = <<>>

\* an uncaught exception ends the run
Raise(exc, line) ==
  /\ pc' = "done"
  /\ outcome' = exc
  /\ raisedAt' = line

Goto(next) ==
  /\ pc' = next
  /\ UNCHANGED <<outcome, raisedAt>>

Text(s) == [kind |-> "str", text |-> s]

\* ------------------------------------------- lines 97-106: locations

\* pd.read_csv(path): the table as a DataFrame of name, latitude, longitude
read_csv(rows) ==
  [t |-> "frame", columns |-> <<"name", "lat", "lon">>, rows |-> rows]

\* ('site',) + tuple(args.location)
SiteTuple(location) == [t |-> "tuple", v |-> <<"site">> \o location.v]

NotValidMessage == <<"not a valid location file, check path">>

ResolveLocations ==
  /\ pc = "resolve"
  /\ IF Truthy(args.file)
       THEN IF isfile(args.file.v)
              THEN IF ~HasAttr(args, "loc")
                     THEN /\ Raise("AttributeError", 101)
                          /\ UNCHANGED <<locations, stdout, readCsvCalls>>
                     ELSE IF Truthy(args.loc)
                            THEN /\ stdout' = Append(stdout, Text(NotValidMessage))
                                 /\ Goto("radius")
                                 /\ UNCHANGED <<locations, readCsvCalls>>
                            ELSE IF args.location.t = "list"
                                   THEN /\ locations' = SiteTuple(args.location)
                                        /\ Goto("radius")
                                        /\ UNCHANGED <<stdout, readCsvCalls>>
                                   ELSE /\ Raise("TypeError", 104)
                                        /\ UNCHANGED <<locations, stdout, readCsvCalls>>
              ELSE /\ readCsvCalls' = Append(readCsvCalls, args.file.v)
                   /\ UNCHANGED stdout
                   /\ \/ /\ Readable(args.file.v)
                         /\ locations' = read_csv(table)
                         /\ Goto("radius")
                      \/ /\ Raise("IOError", 106)
                         /\ UNCHANGED locations
       ELSE /\ Goto("radius")
            /\ UNCHANGED <<locations, stdout, readCsvCalls>>
  /\ UNCHANGED <<py, table, args, radius, i, loc, geometry, region, df, files, events>>

\* ------------------------------------------------ lines 108-112: radius

DegreesPerKm == 8983

\* float(s) for the numerals the model passes; anything else is ValueError
CanFloat(s) == IsNumeral(s)

\* float(args.radius) * 0.008983, in micro-degrees
RadiusDegrees(s) == Numeral(s) * DegreesPerKm

FixRadius ==
  /\ pc = "radius"
  /\ LET gt == GreaterThanZero(args.radius) IN
       IF gt = "TypeError"
         THEN /\ Raise("TypeError", 111)
              /\ UNCHANGED radius
         ELSE IF gt = "True"
                THEN IF CanFloat(args.radius.v)
                       THEN /\ radius' = Bound(RadiusDegrees(args.radius.v))
                            /\ Goto("init")
                       ELSE /\ Raise("ValueError", 112)
                            /\ UNCHANGED radius
                ELSE /\ Goto("init")
                     /\ UNCHANGED radius
  /\ UNCHANGED <<py, table, args, locations, i, loc, geometry, region, df,
                 stdout, files, readCsvCalls, events>>

\* ---------------------------------------------- line 117: ee.Initialize

Initialize ==
  /\ pc = "init"
  /\ \/ /\ events' = Append(events, <<"init", 0>>)
        /\ Goto("loop")
     \/ /\ Raise("EEException", 117)
        /\ UNCHANGED events
  /\ UNCHANGED <<py, table, args, locations, radius, i, loc, geometry, region,
                 df, stdout, files, readCsvCalls>>

\* ------------------------------------- lines 123-126: the location loop

ProcessingPrefix ==
  <<"p", "r", "o", "c", "e", "s", "s", "i", "n", "g", ":", " ">>

\* the k-th tuple of DataFrame.itertuples(): (index, name, lat, lon)
itertuples(frame, k) == <<k - 1>> \o frame.rows[k]

NextLocation ==
  /\ pc = "loop"
  /\ IF locations.t = "unbound"
       THEN /\ Raise("NameError", 123)
            /\ UNCHANGED <<i, loc, stdout>>
       ELSE IF locations.t # "frame"
              THEN /\ Raise("AttributeError", 123)
                   /\ UNCHANGED <<i, loc, stdout>>
              ELSE IF i < Len(locations.rows)
                     THEN /\ i' = i + 1
                          /\ loc' = Bound(itertuples(locations, i + 1))
                          /\ stdout' = Append(stdout,
                                 Text(ProcessingPrefix \o PyIdx(loc'.v, 1)))
                          /\ Goto("geometry")
                     ELSE /\ pc' = "done"
                          /\ outcome' = "ok"
                          /\ UNCHANGED <<raisedAt, i, loc, stdout>>
  /\ UNCHANGED <<py, table, args, locations, radius, geometry, region, df,
                 files, readCsvCalls, events>>

\* -------------------------------------------- lines 133-138: geometry

\* Rectangle with latitude and longitude taken in the other order
RectangleLatFirst(l, r) ==
  [type |-> "Rectangle",
   coords |-> <<PyIdx(l, 2) - r, PyIdx(l, 3) - r, PyIdx(l, 2) + r, PyIdx(l, 3) + r>>]

\* ee.Geometry.Rectangle([loc[3] - radius, loc[2] - radius,
\*                        loc[3] + radius, loc[2] + radius])
Rectangle(l, r) ==
  [type |-> "Rectangle",
   coords |-> <<PyIdx(l, 3) - r, PyIdx(l, 2) - r, PyIdx(l, 3) + r, PyIdx(l, 2) + r>>]

\* ee.Geometry.Point([loc[3], loc[2]])
Point(l) ==
  [type |-> "Point", coords |-> <<PyIdx(l, 3), PyIdx(l, 2)>>]

BuildGeometry ==
  /\ pc = "geometry"
  /\ IF Truthy(args.radius)
       THEN IF radius.t = "unbound"
              THEN /\ Raise("NameError", 135)
                   /\ UNCHANGED geometry
              ELSE /\ geometry' = Bound(Rectangle(loc.v, radius.v))
                   /\ Goto("request")
       ELSE /\ geometry' = Bound(Point(loc.v))
            /\ Goto("request")
  /\ UNCHANGED <<py, table, args, locations, radius, i, loc, region, df,
                 stdout, files, readCsvCalls, events>>

\* ------------------------------ lines 140-144: the remote request

\* int(s) for the numerals the model passes; anything else is ValueError
CanInt(s) == IsNumeral(s)

TimeStarts == {0, 1000}

\* what getRegion(...).getInfo() can return for the selected bands: a header
\* row id, time, <bands> and n records, record j being image j - 1
RegionOf(bands, n, t0) ==
  <<<<"id", "time">> \o bands>> \o
  [j \in 1..n |->
     <<j - 1, t0 + (j - 1) * 1500>> \o
     [k \in 1..Len(bands) |-> 5 + (j - 1) + 10 * (k - 1)]]

Regions(bands) ==
  {RegionOf(bands, n, t0) : n \in 0..MaxRegionRows, t0 \in TimeStarts}

\* Request with a failed request skipped and the loop carried on
RequestContinuing ==
  /\ pc = "request"
  /\ IF ~CanInt(args.scale.v)
       THEN /\ Raise("ValueError", 144)
            /\ UNCHANGED <<region, events>>
       ELSE \/ /\ \E r \in Regions(args.band) : region' = Bound(r)
               /\ events' = Append(events, <<"request", i>>)
               /\ Goto("normalize")
            \/ /\ events' = Append(events, <<"fail", i>>)
               /\ Goto("loop")
               /\ UNCHANGED region
  /\ UNCHANGED <<py, table, args, locations, radius, i, loc, geometry, df,
                 stdout, files, readCsvCalls>>

Request ==
  /\ pc = "request"
  /\ IF ~CanInt(args.scale.v)
       THEN /\ Raise("ValueError", 144)
            /\ UNCHANGED <<region, events>>
       ELSE \/ /\ \E r \in Regions(args.band) : region' = Bound(r)
               /\ events' = Append(events, <<"request", i>>)
               /\ Goto("normalize")
            \/ /\ events' = Append(events, <<"fail", i>>)
               /\ Raise("EEException", 144)
               /\ UNCHANGED region
  /\ UNCHANGED <<py, table, args, locations, radius, i, loc, geometry, df,
                 stdout, files, readCsvCalls>>

\* ------------------------------------ lines 146-164: the result table

Int64(x) == [t |-> "int64", v |-> x]

Float64(n, d) == [t |-> "float64", num |-> n, den |-> d]

Datetime64(ms) == [t |-> "datetime64", ms |-> ms]

Object(x) == [t |-> "object", v |-> x]

\* pd.DataFrame.from_records(data): columns 0 .. k-1, none when data is empty
from_records(data) ==
  [columns |-> IF Len(data) = 0 THEN <<>> ELSE [k \in 1..Len(data[1]) |-> k - 1],
   rows |-> [j \in 1..Len(data) |-> [k \in 1..Len(data[j]) |-> Int64(data[j][k])]]]

\* df.columns = labels (the caller checks the lengths agree)
set_columns(frame, labels) == [frame EXCEPT !.columns = labels]

\* positions of the columns of frame not labelled label
Others(frame, label) ==
  SelectSeq([k \in 1..Len(frame.columns) |-> k],
            LAMBDA k : frame.columns[k] # label)

\* drop without inplace=True: the frame is left as it was
dropCopy(frame, label) == frame

\* df.drop(label, axis=1, inplace=True)
drop(frame, label) ==
  LET keep == Others(frame, label) IN
    [columns |-> [k \in 1..Len(keep) |-> frame.columns[keep[k]]],
     rows |-> [j \in 1..Len(frame.rows) |->
                 [k \in 1..Len(keep) |-> frame.rows[j][keep[k]]]]]

MillisPerSecond == 1000

\* the time field left in milliseconds
NotDivided(x) == Float64(x.v, 1)

\* x / 1000 of an int64 cell: pandas divides truly
DivideBy1000(x) == Float64(x.v, MillisPerSecond)

\* pd.to_datetime(x, unit='s') of a float64 cell
to_datetime(x) == Datetime64((x.num * 1000) \div x.den)

\* df.time = df.time / 1000
divide_time(frame) ==
  [frame EXCEPT !.rows =
     [j \in 1..Len(frame.rows) |->
        [k \in 1..Len(frame.columns) |->
           IF frame.columns[k] = "time" THEN DivideBy1000(frame.rows[j][k])
           ELSE frame.rows[j][k]]]]

\* df['time'] = pd.to_datetime(df['time'], unit='s')
decode_time(frame) ==
  [frame EXCEPT !.rows =
     [j \in 1..Len(frame.rows) |->
        [k \in 1..Len(frame.columns) |->
           IF frame.columns[k] = "time" THEN to_datetime(frame.rows[j][k])
           ELSE frame.rows[j][k]]]]

\* df.rename(columns={old: new}, inplace=True)
rename(frame, old, new) ==
  [frame EXCEPT !.columns =
     [k \in 1..Len(frame.columns) |->
        IF frame.columns[k] = old THEN new ELSE frame.columns[k]]]

\* df[label] = pd.Series(value, index=df.index): an existing column of that
\* name is overwritten in place, otherwise the column is appended
assign(frame, label, value) ==
  IF \E k \in 1..Len(frame.columns) : frame.columns[k] = label
    THEN [frame EXCEPT !.rows =
            [j \in 1..Len(frame.rows) |->
               [k \in 1..Len(frame.columns) |->
                  IF frame.columns[k] = label THEN value ELSE frame.rows[j][k]]]]
    ELSE [columns |-> Append(frame.columns, label),
          rows |-> [j \in 1..Len(frame.rows) |-> Append(frame.rows[j], value)]]

HasColumn(frame, label) ==
  \E k \in 1..Len(frame.columns) : frame.columns[k] = label

\* lines 153-164 applied to the labelled frame
Reshape(frame, product) ==
  assign(
    rename(
      decode_time(divide_time(drop(frame, "id"))),
      "time", "date"),
    "product", Object(product))

Normalize ==
  /\ pc = "normalize"
  /\ LET raw == from_records(SubSeq(region.v, 2, Len(region.v))) IN
       IF Len(raw.columns) # Len(region.v[1])
         THEN /\ Raise("ValueError", 150)
              /\ UNCHANGED df
         ELSE LET labelled == set_columns(raw, region.v[1]) IN
                IF ~HasColumn(labelled, "id")
                  THEN /\ Raise("KeyError", 153)
                       /\ UNCHANGED df
                  ELSE IF ~HasColumn(labelled, "time")
                         THEN /\ Raise("AttributeError", 158)
                              /\ UNCHANGED df
                         ELSE /\ df' = Bound(Reshape(labelled, args.product))
                              /\ Goto("emit")
  /\ UNCHANGED <<py, table, args, locations, radius, i, loc, geometry, region,
                 stdout, files, readCsvCalls, events>>

\* ------------------------------------------ lines 166-172: the output

Suffix ==
  <<"_", "g", "e", "e", "_", "s", "u", "b", "s", "e", "t", ".", "c", "s", "v">>

\* DataFrame.to_csv: a header line and one line per row, the index first
to_csv(frame) ==
  [header |-> <<"">> \o frame.columns,
   lines |-> [j \in 1..Len(frame.rows) |-> <<j - 1>> \o frame.rows[j]]]

Frame(frame) == [kind |-> "frame", frame |-> frame]

Emit ==
  /\ pc = "emit"
  /\ IF Truthy(args.directory)
       THEN /\ files' = Append(files,
                 [path |-> args.directory.v \o PyIdx(loc.v, 1) \o Suffix,
                  csv |-> to_csv(df.v)])
            /\ UNCHANGED stdout
       ELSE /\ stdout' = Append(stdout, Frame(df.v))
            /\ UNCHANGED files
  /\ events' = Append(events, <<"emit", i>>)
  /\ Goto("loop")
  /\ UNCHANGED <<py, table, args, locations, radius, i, loc, geometry, region,
                 df, readCsvCalls>>

\* ---------------------------------------------------- the whole script

Next ==
  \/ ResolveLocations
  \/ FixRadius
  \/ Initialize
  \/ NextLocation
  \/ BuildGeometry
  \/ Request
  \/ Normalize
  \/ Emit

Spec == Init /\ [][Next]_vars

\* ------------------------------------------------------------ claims

FileGiven == Truthy(args.file)

LiteralGiven == Truthy(args.location)

\* the tables print(df) has shown, in order
Printed ==
  LET shown == SelectSeq(stdout, LAMBDA e : e.kind = "frame") IN
    [k \in 1..Len(shown) |-> shown[k].frame]

RequestsIssued ==
  Cardinality({k \in 1..Len(events) : events[k][1] \in {"request", "fail"}})

Emitted == Cardinality({k \in 1..Len(events) : events[k][1] = "emit"})

\* the radius option read as a number of km, -1 when it is no number
RadiusKm == IF CanFloat(args.radius.v) THEN Numeral(args.radius.v) ELSE 0 - 1

\* latitude and longitude of the location being processed
Lat == table[i][2]

Lon == table[i][3]

\* C1: the end-to-end run (product X, band Y, literal location 40.0 -105.0,
\* scale 30, no file, remote answering [id, time, Y], [0, 0, 5]) ends
\* normally having emitted exactly the one-row table
\* date = 1970-01-01T00:00:00, Y = 5, product = X.
C1_EndToEnd ==
  ( /\ args.product = "X"
    /\ args.band = <<"Y">>
    /\ LiteralGiven
    /\ args.location.v = <<"40.0", "-105.0">>
    /\ args.scale.v = DefaultScale
    /\ ~FileGiven
    /\ ~Truthy(args.directory)
    /\ (region.t = "bound" => region.v = <<<<"id", "time", "Y">>, <<0, 0, 5>>>>)
    /\ pc = "done" )
  => /\ outcome = "ok"
     /\ Printed = <<[columns |-> <<"date", "Y", "product">>,
                     rows |-> <<<<Datetime64(0), Int64(5), Object("X")>>>>]>>

\* C2: once locations are resolved, a literal pair alone has given exactly
\* the one Location ("site", lat, lon), an existing table of N rows has given
\* its N rows in order, and a run that ends normally has gone through the
\* loop once per Location.
C2_Resolution ==
  /\ (pc # "resolve" /\ LiteralGiven /\ ~FileGiven)
       => /\ locations.t = "tuple"
          /\ locations.v = <<"site">> \o args.location.v
  /\ (pc # "resolve" /\ FileGiven /\ isfile(args.file.v))
       => /\ locations.t = "frame"
          /\ locations.rows = table
  /\ (outcome = "ok") => (locations.t = "frame" /\ i = Len(locations.rows))

\* C3: with a radius of 0 the run does not fail on the radius, and every
\* geometry built is the point (lon, lat) of its location.
C3_PointAtZero ==
  (RadiusKm = 0)
  => /\ raisedAt \notin {111, 112, 135}
     /\ (pc = "request")
          => geometry.v = [type |-> "Point", coords |-> <<Lon, Lat>>]

\* C4: with a radius of r > 0 km every geometry built is the rectangle
\* [lon - r*0.008983, lat - r*0.008983, lon + r*0.008983, lat + r*0.008983]
\* around its location.
C4_RectangleBounds ==
  (pc = "request" /\ RadiusKm > 0)
  => /\ geometry.v.type = "Rectangle"
     /\ geometry.v.coords =
          <<Lon - RadiusKm * 8983, Lat - RadiusKm * 8983,
            Lon + RadiusKm * 8983, Lat + RadiusKm * 8983>>

C4_Witness ==
  /\ pc = "request"
  /\ RadiusKm = 12
  /\ i = 2

\* C5: a given file is where the locations come from, and a run given both
\* a file and a literal location issues no remote request and ends as a
\* usage error.
C5_MutuallyExclusive ==
  /\ (FileGiven /\ locations.t # "unbound")
       => (locations.t = "frame" /\ locations.rows = table)
  /\ (FileGiven /\ LiteralGiven)
       => /\ RequestsIssued = 0
          /\ (pc = "done") => (outcome = "UsageError")

\* C6: once the resolver has run with --file given, the table reader has
\* been handed the --file value, whether the path exists (the normal path)
\* or not (the fallback, with no file-not-found branch before it).
C6_TableReader ==
  (pc # "resolve" /\ FileGiven)
  => /\ readCsvCalls = <<args.file.v>>
     /\ raisedAt \in {0, 106} \/ raisedAt > 106

\* the header and the records of the raw result being normalized
Header == region.v[1]

Records == SubSeq(region.v, 2, Len(region.v))

\* position of the column labelled label
ColumnOf(columns, label) ==
  CHOOSE k \in 1..Len(columns) : columns[k] = label

\* band b of the raw result is in the table, row for row, value for value
PassedThrough(b) ==
  /\ HasColumn(df.v, b)
  /\ \A j \in 1..Len(Records) :
       LET cell == df.v.rows[j][ColumnOf(df.v.columns, b)] IN
         /\ cell.t = "int64"
         /\ cell.v = Records[j][ColumnOf(Header, b)]

\* what C7 says of every column but the bands
Normalized ==
  /\ Len(df.v.rows) = Len(Records)
  /\ ~HasColumn(df.v, "id")
  /\ ~HasColumn(df.v, "time")
  /\ df.v.columns[ColumnOf(Header, "time") - 1] = "date"
  /\ HasColumn(df.v, "product")
  /\ \A j \in 1..Len(df.v.rows) :
       /\ df.v.rows[j][ColumnOf(df.v.columns, "date")].t = "datetime64"
       /\ df.v.rows[j][ColumnOf(df.v.columns, "product")] = Object(args.product)

C8_EpochSeconds ==
  (pc = "emit")
  => \A j \in 1..Len(Records) :
       LET time == Records[j][ColumnOf(Header, "time")]
           date == df.v.rows[j][ColumnOf(df.v.columns, "date")] IN
         /\ date.t = "datetime64"
         /\ date.ms \div 1000 = time \div 1000
         /\ date.ms % 1000 = time % 1000
         /\ (time = 0 => date = Datetime64(0))
         /\ (time = 1000 => date = Datetime64(1000))

C8_Witness ==
  /\ pc = "emit"
  /\ Len(Records) = 2
  /\ Records[1][ColumnOf(Header, "time")] = 1000
  /\ df.v.rows[1][ColumnOf(df.v.columns, "date")] = Datetime64(1000)
  /\ df.v.rows[2][ColumnOf(df.v.columns, "date")] = Datetime64(2500)

\* os.path.split: the position of the last separator, 0 when there is none
RECURSIVE LastSeparator(_)
LastSeparator(path) ==
  IF Len(path) = 0 THEN 0
  ELSE IF path[Len(path)] = "/" THEN Len(path)
  ELSE LastSeparator(SubSeq(path, 1, Len(path) - 1))

Dirname(path) == SubSeq(path, 1, LastSeparator(path) - 1)

Basename(path) == SubSeq(path, LastSeparator(path) + 1, Len(path))

\* a directory string without its trailing separator
Directory(d) ==
  IF Len(d) > 0 /\ d[Len(d)] = "/" THEN SubSeq(d, 1, Len(d) - 1) ELSE d

\* C9: with a directory configured, every processed location has its table
\* in the file <name>_gee_subset.csv inside that directory, with the columns
\* date, <bands>, product, and nothing is printed; with none, every table is
\* printed and no file is written.
C9_OutputSink ==
  IF Truthy(args.directory)
    THEN /\ Len(files) = Emitted
         /\ Len(Printed) = 0
         /\ \A k \in 1..Len(files) :
              /\ Dirname(files[k].path) = Directory(args.directory.v)
              /\ Basename(files[k].path) = table[k][1] \o Suffix
              /\ files[k].csv.header = <<"date">> \o args.band \o <<"product">>
    ELSE /\ Len(Printed) = Emitted
         /\ Len(files) = 0

\* C10: the session is initialized once, before any request; request k is
\* for location k and follows the emission of table k - 1; a failed request
\* is the last thing the run does, with no request or table for that or any
\* later location; the tables emitted before it remain; and a run that ends
\* normally has issued one request per location.
C10_Sequential ==
  /\ \A k \in 1..Len(events) :
       LET kind == events[k][1]
           n == events[k][2] IN
         /\ (kind = "init") => (k = 1)
         /\ (kind \in {"request", "fail"})
              => /\ k > 1
                 /\ n \in 1..Len(table)
                 /\ events[k - 1] = IF n = 1 THEN <<"init", 0>> ELSE <<"emit", n - 1>>
         /\ (kind = "emit") => (k > 1 /\ events[k - 1] = <<"request", n>>)
         /\ (kind = "fail")
              => (k = Len(events) /\ pc = "done" /\ outcome = "EEException")
  /\ Len(Printed) + Len(files) = Emitted
  /\ (outcome = "ok") => (RequestsIssued = Len(table) /\ Emitted = Len(table))

C10_Witness ==
  /\ pc = "done"
  /\ outcome = "EEException"
  /\ Len(events) > 3
  /\ events[Len(events)] = <<"fail", 2>>
  /\ Len(Printed) + Len(files) = 1

====
